---- MODULE Spec2Model ----
(***************************************************************************)
(* gdal-typed-rasterband: a typed view (TypedRasterBand<T>) over a GDAL    *)
(* raster band, and the GdalFrom<f64> conversions that carry the band's    *)
(* 64-bit float no-data value into the view's element type.                *)
(*                                                                         *)
(* Numbers.  TLC's integers are 32 bits wide, so a 64-bit float is kept in *)
(* sign-magnitude form, as IEEE 754 keeps it: the integer part of the      *)
(* magnitude in two 16-bit limbs (hi, lo) and the fraction fr in units of  *)
(* 2^-FracBits.  An integer of a target type has the same fields, with     *)
(* k = "int" and fr = 0.                                                   *)
(***************************************************************************)
EXTENDS Integers, Sequences, FiniteSets, TLC

VARIABLES band, views, last, lastw, conv

vars == <<band, views, last, lastw, conv>>

(* ------------------------------ bounds --------------------------------- *)
\* fraction bits carried by the modelled floats (fr counts 2^-FracBits)
FracBits == 2
\* how far the sampled floats extend past each limb boundary
Near == 2
\* band extent, in pixels
BandW == 2
BandH == 2
\* typed views alive at once
MaxViews == 2

Limb == 2^16
Den == 2^FracBits

(* --------------------------- element types ----------------------------- *)
IntTypes == {"u8", "u16", "u32", "i16", "i32"}
FloatTypes == {"f32", "f64"}
Types == IntTypes \cup FloatTypes

\* GdalType::gdal_type() of the gdal crate: the tag bound to each T
gdal_type(T) ==
    CASE T = "u8" -> "GDT_Byte"
      [] T = "u16" -> "GDT_UInt16"
      [] T = "u32" -> "GDT_UInt32"
      [] T = "i16" -> "GDT_Int16"
      [] T = "i32" -> "GDT_Int32"
      [] T = "f32" -> "GDT_Float32"
      [] T = "f64" -> "GDT_Float64"

SupportedTags == {gdal_type(T) : T \in Types}
\* a band can also carry a tag no supported T is bound to
Tags == SupportedTags \cup {"GDT_CInt16"}

(* ------------------------------ numbers -------------------------------- *)
Int3(n, h, l) == [k |-> "int", neg |-> n, hi |-> h, lo |-> l, fr |-> 0]
Zero == Int3(FALSE, 0, 0)

Fin(n, h, l, f) == [k |-> "num", neg |-> n, hi |-> h, lo |-> l, fr |-> f]
NaN == [k |-> "nan", neg |-> FALSE, hi |-> 0, lo |-> 0, fr |-> 0]
Inf(n) == [k |-> "inf", neg |-> n, hi |-> 0, lo |-> 0, fr |-> 0]

\* magnitude order on limb pairs
MagLess(h1, l1, h2, l2) == h1 < h2 \/ (h1 = h2 /\ l1 < l2)

\* a < b on integers (zero is never negative)
IntLess(a, b) ==
    IF a.neg /\ ~b.neg THEN TRUE
    ELSE IF ~a.neg /\ b.neg THEN FALSE
    ELSE IF a.neg THEN MagLess(b.hi, b.lo, a.hi, a.lo)
    ELSE MagLess(a.hi, a.lo, b.hi, b.lo)

IntLeq(a, b) == a = b \/ IntLess(a, b)

\* T::MIN and T::MAX of the five integer targets
MinOf(T) ==
    CASE T = "i16" -> Int3(TRUE, 0, 2^15)
      [] T = "i32" -> Int3(TRUE, 2^15, 0)
      [] OTHER -> Zero

MaxOf(T) ==
    CASE T = "u8" -> Int3(FALSE, 0, 2^8 - 1)
      [] T = "u16" -> Int3(FALSE, 0, Limb - 1)
      [] T = "u32" -> Int3(FALSE, Limb - 1, Limb - 1)
      [] T = "i16" -> Int3(FALSE, 0, 2^15 - 1)
      [] T = "i32" -> Int3(FALSE, 2^15 - 1, Limb - 1)

\* the limb pair one above <<h, l>>
SuccHi(h, l) == IF l = Limb - 1 THEN h + 1 ELSE h
SuccLo(l) == IF l = Limb - 1 THEN 0 ELSE l + 1

\* CastInt rounding toward minus infinity instead of toward zero
CastIntFloor(T, d) ==
    IF d.k = "nan" THEN Zero
    ELSE IF d.k = "inf" THEN (IF d.neg THEN MinOf(T) ELSE MaxOf(T))
    ELSE LET down == d.neg /\ d.fr > 0
             t == Int3(d.neg /\ (d.hi > 0 \/ d.lo > 0 \/ d.fr > 0),
                       IF down THEN SuccHi(d.hi, d.lo) ELSE d.hi,
                       IF down THEN SuccLo(d.lo) ELSE d.lo)
         IN IF IntLess(t, MinOf(T)) THEN MinOf(T)
            ELSE IF IntLess(MaxOf(T), t) THEN MaxOf(T)
            ELSE t

\* CastInt rounding to the nearest integer instead of toward zero
CastIntRound(T, d) ==
    IF d.k = "nan" THEN Zero
    ELSE IF d.k = "inf" THEN (IF d.neg THEN MinOf(T) ELSE MaxOf(T))
    ELSE LET away == 2 * d.fr >= Den
             h == IF away THEN SuccHi(d.hi, d.lo) ELSE d.hi
             l == IF away THEN SuccLo(d.lo) ELSE d.lo
             t == Int3(d.neg /\ (h > 0 \/ l > 0), h, l)
         IN IF IntLess(t, MinOf(T)) THEN MinOf(T)
            ELSE IF IntLess(MaxOf(T), t) THEN MaxOf(T)
            ELSE t

\* `d as T` for an integer T (Rust's float-to-integer cast): NaN gives 0,
\* the fraction is dropped toward zero (-0.x gives 0), and a value past T's
\* bounds, infinite or not, saturates at the bound
CastInt(T, d) ==
    IF d.k = "nan" THEN Zero
    ELSE IF d.k = "inf" THEN (IF d.neg THEN MinOf(T) ELSE MaxOf(T))
    ELSE LET t == Int3(d.neg /\ (d.hi > 0 \/ d.lo > 0), d.hi, d.lo) IN
         IF IntLess(t, MinOf(T)) THEN MinOf(T)
         ELSE IF IntLess(MaxOf(T), t) THEN MaxOf(T)
         ELSE t

RECURSIVE BitLen(_)
BitLen(n) == IF n = 0 THEN 0 ELSE 1 + BitLen(n \div 2)

\* `d as f32`: round the magnitude to 24 significant bits, ties to even.
\* The bits dropped (at most 9 + FracBits) all lie in lo and fr.
CastF32(d) ==
    IF d.k # "num" THEN d
    ELSE LET L == d.lo * Den + d.fr
             len == IF d.hi > 0 THEN 16 + FracBits + BitLen(d.hi) ELSE BitLen(L)
             s == IF len > 24 THEN len - 24 ELSE 0
             u == 2^s
             q == L \div u
             r == L % u
             up == s > 0 /\ (2 * r > u \/ (2 * r = u /\ q % 2 = 1))
             L2 == (IF up THEN q + 1 ELSE q) * u
             c == IF L2 = Limb * Den THEN 1 ELSE 0
             L3 == IF c = 1 THEN 0 ELSE L2
         IN Fin(d.neg, d.hi + c, L3 \div Den, L3 % Den)

\* GdalFrom<f64>::from for each of the seven implementations
GdalFrom(T, d) ==
    CASE T \in IntTypes -> CastInt(T, d)
      [] T = "f32" -> CastF32(d)
      [] T = "f64" -> d

\* a value of T carried back to a 64-bit float (exact for all seven types)
Widen(T, v) ==
    IF T \in IntTypes THEN Fin(v.neg, v.hi, v.lo, 0) ELSE v

\* the values a T can hold
IsValueOf(T, v) ==
    IF T \in IntTypes
    THEN /\ v.k = "int" /\ v.fr = 0
         /\ v.hi \in 0..(Limb - 1) /\ v.lo \in 0..(Limb - 1)
         /\ (v.neg => v.hi > 0 \/ v.lo > 0)
         /\ IntLeq(MinOf(T), v) /\ IntLeq(v, MaxOf(T))
    ELSE /\ v.k \in {"num", "nan", "inf"}
         /\ v.hi >= 0 /\ v.lo \in 0..(Limb - 1) /\ v.fr \in 0..(Den - 1)
         /\ (T = "f32" => CastF32(v) = v)

\* |d| <= |m| for a finite float d and an integer m
MagLeq(d, m) ==
    MagLess(d.hi, d.lo, m.hi, m.lo) \/ (d.hi = m.hi /\ d.lo = m.lo /\ d.fr = 0)

\* T::MIN <= d <= T::MAX; the finite floats sampled here all lie within the
\* range of f32 and of f64
InRange(T, d) ==
    /\ d.k = "num"
    /\ T \in IntTypes =>
          IF d.neg THEN MagLeq(d, MinOf(T)) ELSE MagLeq(d, MaxOf(T))

\* the floats sampled: integer parts on both sides of every bound of the five
\* integer types and of the f32 rounding steps, every fraction, both signs
HiSet == {0, 2^15 - 1, 2^15, Limb - 1, Limb}
LoSet == (0..Near) \cup {42, 2^7 - 1, 2^7, 2^8 - 1, 2^8, 2^15 - 1, 2^15}
            \cup ((Limb - 1 - Near)..(Limb - 1))
Floats ==
    {Fin(n, h, l, f) : n \in BOOLEAN, h \in HiSet, l \in LoSet, f \in 0..(Den - 1)}
        \cup {NaN, Inf(FALSE), Inf(TRUE)}

None == [some |-> FALSE, val |-> NaN]
Some(v) == [some |-> TRUE, val |-> v]

(* ---------------------- pixel buffers and windows ----------------------- *)
PixVals == {0, 1}

\* Buffer<T>: a row-major block of pixels with its width and height
Buffer(sz, d) == [size |-> sz, data |-> d]
NoBuffer == Buffer(<<0, 0>>, <<>>)

Ok(b) == [kind |-> "Ok", err |-> "", buf |-> b]
Err(e) == [kind |-> "Err", err |-> e, buf |-> NoBuffer]

\* TypeError {}: the one error the view itself raises
TypeError == "TypeError"

(* ------------------ the band handle (gdal::RasterBand) ------------------ *)
\* The gdal crate is an external collaborator: what follows is its interface
\* as the design describes it (element-type tag, extent, optional scalar
\* metadata, windowed raster I/O that fails on a window outside the extent).
Extent(rb) == rb.size

At(sz, x, y) == y * sz[1] + x + 1

InExtent(rb, window, wsize) ==
    /\ window[1] >= 0 /\ window[2] >= 0
    /\ window[1] + wsize[1] <= rb.size[1]
    /\ window[2] + wsize[2] <= rb.size[2]

\* nearest-neighbour source index of destination index i when n source cells
\* are mapped onto m destination cells
Nearest(i, n, m) == ((2 * i + 1) * n) \div (2 * m)

rb_band_type(rb) == rb.tag
rb_no_data_value(rb) == rb.nodata
rb_scale(rb) == rb.scale
rb_offset(rb) == rb.offset
rb_owning_dataset(rb) == rb.dataset

\* RasterBand::read_as: io is what the storage does during this call
rb_read_as(rb, window, wsize, size, io) ==
    IF ~InExtent(rb, window, wsize) THEN Err("window out of range")
    ELSE IF io = "fail" THEN Err("storage failure")
    ELSE Ok(Buffer(size,
            [n \in 1..(size[1] * size[2]) |->
                rb.pixels[At(rb.size,
                    window[1] + Nearest((n - 1) % size[1], wsize[1], size[1]),
                    window[2] + Nearest((n - 1) \div size[1], wsize[2], size[2]))]]))

rb_read_band_as(rb, io) == rb_read_as(rb, <<0, 0>>, rb.size, rb.size, io)

\* RasterBand::write: the result and the band afterwards.  What the store
\* does with a buffer whose size is not wsize is its own business: strict
\* says whether it refuses the call or resamples the buffer onto the window.
rb_write(rb, window, wsize, buffer, io, strict) ==
    IF ~InExtent(rb, window, wsize) THEN [res |-> Err("window out of range"), rb |-> rb]
    ELSE IF io = "fail" THEN [res |-> Err("storage failure"), rb |-> rb]
    ELSE IF buffer.size # wsize /\ strict
    THEN [res |-> Err("buffer size mismatch"), rb |-> rb]
    ELSE [res |-> Ok(NoBuffer),
          rb |-> [rb EXCEPT !.pixels =
             [n \in 1..Len(rb.pixels) |->
                LET x == (n - 1) % rb.size[1]
                    y == (n - 1) \div rb.size[1]
                IN IF /\ x >= window[1] /\ x < window[1] + wsize[1]
                      /\ y >= window[2] /\ y < window[2] + wsize[2]
                   THEN buffer.data[At(buffer.size,
                           Nearest(x - window[1], buffer.size[1], wsize[1]),
                           Nearest(y - window[2], buffer.size[2], wsize[2]))]
                   ELSE rb.pixels[n]]]]

(* ------------------------- TypedRasterBand<T> --------------------------- *)
\* the view: a borrow of the band and the phantom element type
TypedRasterBand(T) == [pixel_type |-> T]

\* from_rasterband without the comparison: every band is accepted
from_rasterband_unchecked(T, rb) ==
    [kind |-> "Ok", err |-> "", view |-> TypedRasterBand(T)]

\* from_rasterband with the comparison inverted
from_rasterband_inverted(T, rb) ==
    IF gdal_type(T) # rb_band_type(rb)
    THEN [kind |-> "Ok", err |-> "", view |-> TypedRasterBand(T)]
    ELSE [kind |-> "Err", err |-> TypeError, view |-> TypedRasterBand(T)]

from_rasterband(T, rb) ==
    IF gdal_type(T) = rb_band_type(rb)
    THEN [kind |-> "Ok", err |-> "", view |-> TypedRasterBand(T)]
    ELSE [kind |-> "Err", err |-> TypeError, view |-> TypedRasterBand(T)]

owning_dataset(self, rb) == rb_owning_dataset(rb)

\* read that retries once after a failed call
read_retry(self, rb, window, window_size, size, io) ==
    LET r == rb_read_as(rb, window, window_size, size, io) IN
    IF r.kind = "Err" THEN rb_read_as(rb, window, window_size, size, "ok") ELSE r

read(self, rb, window, window_size, size, io) ==
    rb_read_as(rb, window, window_size, size, io)

\* read_band that asks for a single output pixel
read_band_decimated(self, rb, io) ==
    rb_read_as(rb, <<0, 0>>, Extent(rb), <<1, 1>>, io)

read_band(self, rb, io) == rb_read_band_as(rb, io)

write(self, rb, window, window_size, buffer, io, strict) ==
    rb_write(rb, window, window_size, buffer, io, strict)

band_type(self, rb) == rb_band_type(rb)

\* no_data_value that always converts as for an 8-bit band
no_data_value_u8(self, rb) ==
    LET no_data_f64 == rb_no_data_value(rb) IN
    IF no_data_f64.some THEN Some(GdalFrom("u8", no_data_f64.val)) ELSE None

\* no_data_value that falls back to zero when the band has no sentinel
no_data_value_default(self, rb) ==
    LET no_data_f64 == rb_no_data_value(rb) IN
    Some(GdalFrom(self.pixel_type,
                  IF no_data_f64.some THEN no_data_f64.val ELSE Fin(FALSE, 0, 0, 0)))

no_data_value(self, rb) ==
    LET no_data_f64 == rb_no_data_value(rb) IN
    IF no_data_f64.some THEN Some(GdalFrom(self.pixel_type, no_data_f64.val))
    ELSE None

\* scale passed through the element-type conversion, like the no-data value
scale_converted(self, rb) ==
    LET f == rb_scale(rb) IN
    IF f.some THEN Some(GdalFrom(self.pixel_type, f.val)) ELSE None

scale(self, rb) == rb_scale(rb)

offset(self, rb) == rb_offset(rb)

(* ------------------------------- state --------------------------------- *)
\* band   the band handle every view borrows
\* views  the typed views alive, in order of construction
\* last   the last call made and what it returned (store: what the band
\*        handle itself answered to the delegated call)
\* lastw  the buffer of the last write that covered the whole band, if no
\*        other write followed it
\* conv   the last GdalFrom conversion applied on its own, and its round trip
Pixels0 == [n \in 1..(BandW * BandH) |-> 0]
PixelsRamp == [n \in 1..(BandW * BandH) |-> n % 2]

Half == Fin(FALSE, 0, 0, 2^(FracBits - 1))
Meta0 == [nodata |-> None, scale |-> None, offset |-> None]
Meta1 == [nodata |-> Some(Fin(FALSE, 0, 42, 0)), scale |-> Some(Half),
          offset |-> Some(Fin(TRUE, 0, 1, 1))]

Band(tag, px, m) ==
    [tag |-> tag, size |-> <<BandW, BandH>>, pixels |-> px,
     nodata |-> m.nodata, scale |-> m.scale, offset |-> m.offset,
     dataset |-> "ds"]

NoCall ==
    [op |-> "none", view |-> 0, T |-> "", kind |-> "", err |-> "",
     buf |-> NoBuffer, opt |-> None, tag |-> "", store |-> Ok(NoBuffer),
     inExt |-> TRUE, full |-> FALSE, fromRead |-> FALSE, io |-> "ok"]

NoWrite == [set |-> FALSE, view |-> 0, buf |-> NoBuffer, fromRead |-> FALSE]

NoConv == [T |-> "", x |-> NaN, y |-> NaN, w |-> NaN, z |-> NaN]

Init ==
    /\ band \in {Band(t, PixelsRamp, Meta1) : t \in Tags}
                 \cup {Band("GDT_Byte", PixelsRamp, Meta0)}
    /\ views = <<>>
    /\ last = NoCall
    /\ lastw = NoWrite
    /\ conv = NoConv

(* ------------------------------ actions --------------------------------- *)
IO == {"ok", "fail"}

\* the windows callers ask for, as <<origin, size>>: the whole band, its last
\* pixel, and two that leave the extent (one hanging over the far edge, one
\* starting before the near edge)
Windows ==
    {<< <<0, 0>>, <<BandW, BandH>> >>,
     << <<BandW - 1, BandH - 1>>, <<1, 1>> >>,
     << <<1, 0>>, <<BandW, BandH>> >>,
     << <<-1, 0>>, <<1, 1>> >>}

Fill(sz, p) == Buffer(sz, [n \in 1..(sz[1] * sz[2]) |-> p])

\* TypedRasterBand::<T>::from_rasterband(&band)
FromRasterband(T) ==
    LET r == from_rasterband(T, band) IN
    /\ r.kind = "Ok" => Len(views) < MaxViews
    /\ views' = IF r.kind = "Ok" THEN Append(views, r.view) ELSE views
    /\ last' = [NoCall EXCEPT !.op = "from_rasterband", !.T = T,
                              !.kind = r.kind, !.err = r.err]
    /\ UNCHANGED <<band, lastw, conv>>

\* view.read(window, window_size, size)
Read(i, window, wsize, size, io) ==
    \E r \in {read(views[i], band, window, wsize, size, io)},
       st \in {rb_read_as(band, window, wsize, size, io)} :
    /\ last' = [NoCall EXCEPT !.op = "read", !.view = i, !.T = views[i].pixel_type,
                              !.kind = r.kind, !.err = r.err, !.buf = r.buf,
                              !.store = st,
                              !.inExt = InExtent(band, window, wsize), !.io = io]
    /\ UNCHANGED <<band, views, lastw, conv>>

\* view.read_band()
ReadBand(i, io) ==
    \E r \in {read_band(views[i], band, io)}, st \in {rb_read_band_as(band, io)} :
    /\ last' = [NoCall EXCEPT !.op = "read_band", !.view = i,
                              !.T = views[i].pixel_type,
                              !.kind = r.kind, !.err = r.err, !.buf = r.buf,
                              !.store = st, !.io = io]
    /\ UNCHANGED <<band, views, lastw, conv>>

\* view.write(window, window_size, &buffer)
Write(i, window, wsize, buffer, io, strict) ==
    \E r \in {write(views[i], band, window, wsize, buffer, io, strict)},
       st \in {rb_write(band, window, wsize, buffer, io, strict)} :
    LET whole == window = <<0, 0>> /\ wsize = Extent(band)
        back == last.op = "read_band" /\ last.kind = "Ok" /\ buffer = last.buf
    IN
    /\ band' = r.rb
    /\ last' = [NoCall EXCEPT !.op = "write", !.view = i, !.T = views[i].pixel_type,
                              !.kind = r.res.kind, !.err = r.res.err,
                              !.store = st.res,
                              !.inExt = InExtent(band, window, wsize),
                              !.full = whole, !.fromRead = back, !.io = io]
    /\ lastw' = IF whole /\ buffer.size = wsize /\ r.res.kind = "Ok"
                THEN [set |-> TRUE, view |-> i, buf |-> buffer, fromRead |-> back]
                ELSE NoWrite
    /\ UNCHANGED <<views, conv>>

\* the buffers a caller writes: a constant fill of the window's size, a
\* single pixel, or the buffer it read last
WriteBuffers(wsize) ==
    {Fill(wsize, p) : p \in PixVals} \cup {Fill(<<1, 1>>, 1)}
        \cup (IF last.op \in {"read", "read_band"} /\ last.kind = "Ok"
              THEN {last.buf} ELSE {})

\* view.band_type()
BandType(i) ==
    /\ last' = [NoCall EXCEPT !.op = "band_type", !.view = i,
                              !.T = views[i].pixel_type,
                              !.tag = band_type(views[i], band)]
    /\ UNCHANGED <<band, views, lastw, conv>>

\* view.no_data_value()
NoDataValue(i) ==
    /\ last' = [NoCall EXCEPT !.op = "no_data_value", !.view = i,
                              !.T = views[i].pixel_type,
                              !.opt = no_data_value(views[i], band)]
    /\ UNCHANGED <<band, views, lastw, conv>>

\* view.scale()
Scale(i) ==
    /\ last' = [NoCall EXCEPT !.op = "scale", !.view = i, !.T = views[i].pixel_type,
                              !.opt = scale(views[i], band)]
    /\ UNCHANGED <<band, views, lastw, conv>>

\* view.offset()
Offset(i) ==
    /\ last' = [NoCall EXCEPT !.op = "offset", !.view = i, !.T = views[i].pixel_type,
                              !.opt = offset(views[i], band)]
    /\ UNCHANGED <<band, views, lastw, conv>>

\* view.owning_dataset()
OwningDataset(i) ==
    /\ last' = [NoCall EXCEPT !.op = "owning_dataset", !.view = i,
                              !.T = views[i].pixel_type,
                              !.tag = owning_dataset(views[i], band)]
    /\ UNCHANGED <<band, views, lastw, conv>>

\* what the storage can do during a call: a window outside the extent is
\* refused before the storage is touched
IOFor(win) == IF InExtent(band, win[1], win[2]) THEN IO ELSE {"ok"}

Next ==
    \/ \E T \in Types : FromRasterband(T)
    \/ \E i \in DOMAIN views, win \in Windows :
          \E size \in {win[2], <<1, 1>>}, io \in IOFor(win) :
             Read(i, win[1], win[2], size, io)
    \/ \E i \in DOMAIN views, io \in IO : ReadBand(i, io)
    \/ \E i \in DOMAIN views, win \in Windows :
          \E buffer \in WriteBuffers(win[2]), io \in IOFor(win) :
             \E strict \in IF buffer.size = win[2] THEN {TRUE} ELSE BOOLEAN :
                Write(i, win[1], win[2], buffer, io, strict)
    \/ \E i \in DOMAIN views : BandType(i)
    \/ \E i \in DOMAIN views : NoDataValue(i)
    \/ \E i \in DOMAIN views : Scale(i)
    \/ \E i \in DOMAIN views : Offset(i)
    \/ \E i \in DOMAIN views : OwningDataset(i)

Spec == Init /\ [][Next]_vars

(* --------- the no-data value over the sampled floats (SpecNoData) ------- *)
InitNoData ==
    /\ band \in {Band(t, Pixels0, [Meta0 EXCEPT !.nodata = nd]) :
                    t \in Tags, nd \in {None} \cup {Some(f) : f \in Floats}}
    /\ views = <<>>
    /\ last = NoCall
    /\ lastw = NoWrite
    /\ conv = NoConv

NextNoData ==
    \/ \E T \in Types : FromRasterband(T)
    \/ \E i \in DOMAIN views : NoDataValue(i)

SpecNoData == InitNoData /\ [][NextNoData]_vars

(* ------------- the conversions over the sampled floats (SpecConv) ------- *)
InitConv ==
    /\ band = Band("GDT_Byte", Pixels0, Meta0)
    /\ views = <<>>
    /\ last = NoCall
    /\ lastw = NoWrite
    /\ conv \in {[NoConv EXCEPT !.x = f] : f \in Floats}

\* T::from(x), the result widened to f64, and that converted again
Convert(T) ==
    LET y == GdalFrom(T, conv.x)
        w == Widen(T, y)
    IN
    /\ conv' = [T |-> T, x |-> conv.x, y |-> y, w |-> w, z |-> GdalFrom(T, w)]
    /\ UNCHANGED <<band, views, last, lastw>>

NextConv == \E T \in Types : Convert(T)

SpecConv == InitConv /\ [][NextConv]_vars

(* ------------------------------- claims --------------------------------- *)
FromCalled == last'.op = "from_rasterband"

\* C1: over a band whose tag is one of the seven supported ones,
\* from_rasterband::<T> returns Ok exactly when the band's tag is T's tag, and
\* then adds one view of type T; otherwise it returns Err(TypeError) and the
\* views are as they were.
C1_FromRasterbandIffTagMatches ==
    [][(FromCalled /\ band.tag \in SupportedTags) =>
          /\ last'.kind = "Ok" <=> band.tag = gdal_type(last'.T)
          /\ last'.kind = "Ok" => views' = Append(views, TypedRasterBand(last'.T))
          /\ last'.kind # "Ok" =>
                last'.kind = "Err" /\ last'.err = TypeError /\ views' = views]_vars

C1_Witness ==
    /\ last.op = "from_rasterband" /\ last.kind = "Err"
    /\ last.T = "u8" /\ band.tag = "GDT_UInt16"
    /\ Len(views) = 1

\* C2: in every reachable state, band_type() on every view alive returns the
\* tag of the view's own element type, whatever reads, writes and metadata
\* calls were made through it or through the other views.
C2_BandTypeIsViewType ==
    /\ \A i \in DOMAIN views :
          band_type(views[i], band) = gdal_type(views[i].pixel_type)
    /\ last.op = "band_type" => last.tag = gdal_type(last.T)

C2_Witness ==
    /\ last.op = "band_type" /\ last.view = 1 /\ last.T = "i32"
    /\ Len(views) = 2
    /\ band.pixels # PixelsRamp

\* the integer a float with no fraction stands for
AsInt(v) == Int3(v.neg /\ (v.hi > 0 \/ v.lo > 0), v.hi, v.lo)

\* C3: on a view of an integer type T, when the band's no-data value v has no
\* fraction and lies within T's range, no_data_value() returns Some(v) as a T.
C3_NoDataExact ==
    (/\ last.op = "no_data_value" /\ last.T \in IntTypes
     /\ band.nodata.some
     /\ InRange(last.T, band.nodata.val) /\ band.nodata.val.fr = 0)
        => last.opt = Some(AsInt(band.nodata.val))

C3_Witness ==
    /\ last.op = "no_data_value" /\ last.T = "u16"
    /\ band.nodata = Some(Fin(FALSE, 0, 42, 0))
    /\ last.opt = Some(Int3(FALSE, 0, 42))

\* C4: no_data_value() returns None when the band has no no-data value, and
\* Some only when the band reports one.
C4_NoDataAbsentIsNone ==
    last.op = "no_data_value" =>
        /\ last.opt.some <=> band.nodata.some
        /\ ~band.nodata.some => last.opt = None

C4_Witness ==
    /\ last.op = "no_data_value" /\ ~band.nodata.some /\ last.opt = None
    /\ last.T = "f32"

C6_IoErrorsVerbatim ==
    /\ (last.op = "read" /\ (~last.inExt \/ last.io = "fail")) => last.kind = "Err"
    /\ last.op \in {"read", "read_band", "write"} =>
          /\ last.kind = last.store.kind /\ last.err = last.store.err
          /\ last.op # "write" => last.buf = last.store.buf
          /\ last.err # TypeError

C6_Witness ==
    /\ last.op = "read" /\ ~last.inExt
    /\ last.kind = "Err" /\ last.err = "window out of range"

\* y is x with its fraction dropped toward zero: an integer of x's sign (or
\* zero) with |y| <= |x| < |y| + 1
TruncatedTowardZero(x, y) ==
    /\ y.k = "int" /\ y.fr = 0
    /\ y.neg => x.neg
    /\ (x.neg /\ (y.hi > 0 \/ y.lo > 0)) => y.neg
    /\ ~MagLess(x.hi, x.lo, y.hi, y.lo)
    /\ MagLess(x.hi, x.lo, SuccHi(y.hi, y.lo), SuccLo(y.lo))

\* C8: GdalFrom::from gives a value of T for every float, and for an integer
\* T and a float within T's range that value is the float truncated toward
\* zero.
C8_TotalAndTruncating ==
    conv.T # "" =>
        /\ IsValueOf(conv.T, conv.y)
        /\ (conv.T \in IntTypes /\ InRange(conv.T, conv.x))
              => TruncatedTowardZero(conv.x, conv.y)

C8_Witness ==
    /\ conv.T = "i16"
    /\ conv.x = Fin(TRUE, 0, 42, Den - 1)
    /\ conv.y = Int3(TRUE, 0, 42)

C10_FrameAndPassThrough ==
    [][/\ last'.op # "write" => band'.pixels = band.pixels
       /\ band'.tag = band.tag /\ band'.size = band.size
       /\ band'.nodata = band.nodata /\ band'.scale = band.scale
       /\ band'.offset = band.offset /\ band'.dataset = band.dataset
       /\ last'.op = "scale" => last'.opt = band'.scale
       /\ last'.op = "offset" => last'.opt = band'.offset
       /\ (last'.op = "read_band" /\ last'.kind = "Ok" /\ lastw'.set)
             => last'.buf = lastw'.buf]_vars

C10_Witness ==
    /\ last.op = "read_band" /\ last.kind = "Ok"
    /\ lastw.set /\ lastw.view # last.view
    /\ last.buf = lastw.buf
    /\ band.pixels # PixelsRamp

====
